---- MODULE Spec2Model ----
(***************************************************************************)
(* Model of the Bluesky autoposter: the queue-based orchestrator (main),   *)
(* the state store (loadState / saveState / ensureToday / recordSuccess),  *)
(* the queue selector (selectNext), the content generator (generatePost    *)
(* with its repair request and fallback), the safety filter, the text hash *)
(* used for de-duplication and the publisher (login / postWithImages)      *)
(* against a network that keys post records by rkey.                       *)
(***************************************************************************)
EXTENDS Integers, Sequences, FiniteSets, TLC

VARIABLES
    stateFile,   \* state/state.json: <<>> when absent, else <<BotState>>
    network,     \* post records created on the network, in creation order
    clock,       \* wall clock, minutes since the epoch (UTC)
    schedule,    \* config/schedule.json
    queue,       \* content/queue.csv as loaded by loadQueue
    run,         \* per process: position and locals of main()
    history,     \* observed calls, in order: recordSuccess / saveState
    published,   \* per text hash, the number of runs that reached the publish
                 \* step: 0, 1, or 2 for two and more
    fn           \* input and result of a pure function under test

vars == <<stateFile, network, clock, schedule, queue, run, history, published, fn>>

----------------------------------------------------------------------------
(* Bounds of the model *)

MaxPosts == 4         \* runs that reach recordSuccess before the runs stop
MaxOverlapPosts == 2  \* the same, where runs may overlap
MaxLateMinutes == 15  \* a run starts at most this long after its scheduler tick
MaxTicks == 2         \* scheduler ticks (TickMinutes each) per behaviour
MaxQueueLen == 3      \* queue rows drawn for selectNext under test
MaxPostedLen == 3     \* posted-id entries drawn for selectNext under test
MaxGenImages == 2     \* images handed to generatePost under test
MaxRecentLen == 2     \* recency-list entries drawn for the state store under test
MaxCap == 2           \* recency caps drawn for the state store under test

Procs == {1, 2}
FirstProc == CHOOSE p \in Procs : \A q \in Procs : p <= q

MinutesPerDay == 24 * 60
TickMinutes == 12 * 60
StartClock == 21 * 60 + 50
MaxClock == StartClock + MaxTicks * TickMinutes

\* the scheduled start at or before the instant t
LastTick(t) == StartClock + ((t - StartClock) \div TickMinutes) * TickMinutes

\* the first scheduled start after the instant t
NextTick(t) == StartClock + (((t - StartClock) \div TickMinutes) + 1) * TickMinutes

NullDate == -1
NullTime == -1
NoItem == "none"

----------------------------------------------------------------------------
(* Sequence helpers *)

Range(s) == {s[i] : i \in 1..Len(s)}

Includes(s, x) == \E i \in 1..Len(s) : s[i] = x

\* slice(0, n) where slice(-n) was meant: the first n elements
SliceFirst(s, n) == SubSeq(s, 1, IF n < Len(s) THEN n ELSE Len(s))

\* Array.prototype.slice(-n): the last n elements; slice(-0) is slice(0),
\* the whole array.
SliceLast(s, n) ==
    IF n = 0 \/ n >= Len(s) THEN s
    ELSE SubSeq(s, Len(s) - n + 1, Len(s))

\* Array.prototype.find and for..of: the first of the matching indices,
\* 0 when nothing matches
FirstIndex(hits) ==
    IF hits = {} THEN 0
    ELSE CHOOSE i \in hits : \A j \in hits : i <= j

----------------------------------------------------------------------------
(* Text validator: normalizeText / hashText *)

\* A text is a sequence of graphemes.  A URL inside a text is written with
\* one element for each of its parts: the scheme and host ("https://e.com"),
\* a path segment ("/p"), "?", a query parameter ("id=1"), "&".
Whitespace == {" ", "\n"}

\* String.prototype.toLowerCase on one element
ToLowerCase(c) ==
    CASE c = "H" -> "h"
      [] c = "I" -> "i"
      [] c = "B" -> "b"
      [] c = "Q" -> "q"
      [] c = "HTTPS://E.COM" -> "https://e.com"
      [] c = "/P" -> "/p"
      [] c = "/%3C" -> "/%3c"
      [] c = "ID=1" -> "id=1"
      [] c = "FLAG" -> "flag"
      [] c = "UTM_SOURCE=X" -> "utm_source=x"
      [] c = "GCLID=X" -> "gclid=x"
      [] OTHER -> c

LowerText(t) == [i \in 1..Len(t) |-> ToLowerCase(t[i])]

\* text.replace(/\s+/g, ' '): every run of whitespace becomes one space
CollapseWhitespace(t) ==
    LET marked == [i \in 1..Len(t) |->
                      IF t[i] \notin Whitespace THEN t[i]
                      ELSE IF i = 1 \/ t[i - 1] \notin Whitespace THEN " "
                      ELSE ""]
    IN  SelectSeq(marked, LAMBDA c : c # "")

TrimStart(t) ==
    LET first == FirstIndex({i \in 1..Len(t) : t[i] \notin Whitespace})
    IN  IF first = 0 THEN <<>> ELSE SubSeq(t, first, Len(t))

TrimEnd(t) ==
    LET inked == {i \in 1..Len(t) : t[i] \notin Whitespace}
    IN  IF inked = {} THEN <<>>
        ELSE SubSeq(t, 1, CHOOSE i \in inked : \A j \in inked : j <= i)

Trim(t) == TrimEnd(TrimStart(t))

\* the parameters that stripTracking deletes
trackingParams ==
    {"utm_source", "utm_medium", "utm_campaign", "utm_term", "utm_content",
     "gclid", "fbclid"}

\* what /https?:\/\// matches at the start of a URL
UrlStarts == {"https://e.com"}
PathSegments == {"/", "/p", "/<", "/%3C", "/%3c"}
QueryParams == {"id=1", "flag", "flag=", "utm_source=x", "gclid=x"}

\* the name of a query parameter: what stands before its "="
ParamName(param) ==
    CASE param = "id=1" -> "id"
      [] param \in {"flag", "flag="} -> "flag"
      [] param = "utm_source=x" -> "utm_source"
      [] param = "gclid=x" -> "gclid"
      [] OTHER -> param

\* the URL parser writes a character of the path that is outside its safe
\* set as a percent escape with upper-case hex digits, and leaves the
\* escapes it meets as they are
PercentEncodePath(segment) == IF segment = "/<" THEN "/%3C" ELSE segment

\* the form serializer that rewrites the query after a delete writes every
\* parameter as name=value
FormEncode(param) == IF param = "flag" THEN "flag=" ELSE param

\* new URL(rawUrl): the parts of a URL of the shape
\* start path* ( "?" ( param ( "&" param )* )? )?; whatever else follows
\* the start is taken as a URL that the parser rejects
ParseUrl(rawUrl) ==
    LET rest == Tail(rawUrl)
        mark == FirstIndex({i \in 1..Len(rest) : rest[i] = "?"})
        path == IF mark = 0 THEN rest ELSE SubSeq(rest, 1, mark - 1)
        query == IF mark = 0 THEN <<>> ELSE SubSeq(rest, mark + 1, Len(rest))
    IN  [ok |-> /\ \A i \in 1..Len(path) : path[i] \in PathSegments
                /\ Len(query) % 2 = (IF query = <<>> THEN 0 ELSE 1)
                /\ \A i \in 1..Len(query) :
                      IF i % 2 = 1 THEN query[i] \in QueryParams ELSE query[i] = "&",
         start |-> Head(rawUrl),
         path |-> path,
         hasQuery |-> mark # 0,
         params |-> SelectSeq(query, LAMBDA c : c # "&")]

\* params joined by "&"
JoinParams(params) ==
    [i \in 1..(IF params = <<>> THEN 0 ELSE 2 * Len(params) - 1) |->
        IF i % 2 = 1 THEN params[(i + 1) \div 2] ELSE "&"]

\* url.toString()
UrlToString(url, params, hasQuery) ==
    <<url.start>>
    \o (IF url.path = <<>> THEN <<"/">>
        ELSE [i \in 1..Len(url.path) |-> PercentEncodePath(url.path[i])])
    \o (IF hasQuery THEN <<"?">> \o JoinParams(params) ELSE <<>>)

\* stripTracking(rawUrl): delete the tracking parameters; a delete rewrites
\* the query from the parameters that are left, and an emptied query goes
\* away with its "?"
stripTracking(rawUrl) ==
    LET url == ParseUrl(rawUrl)
        kept == SelectSeq(url.params, LAMBDA c : ParamName(c) \notin trackingParams)
    IN  IF ~ url.ok THEN rawUrl
        ELSE IF Len(kept) = Len(url.params)
        THEN UrlToString(url, url.params, url.hasQuery)
        ELSE UrlToString(url, [i \in 1..Len(kept) |-> FormEncode(kept[i])],
                         kept # <<>>)

\* collapsed.replace(/https?:\/\/[^\s]+/g, (match) => stripTracking(match))
RECURSIVE ReplaceUrls(_)
ReplaceUrls(t) ==
    LET from == FirstIndex({i \in 1..Len(t) : t[i] \in UrlStarts})
        stop == FirstIndex({i \in 1..Len(t) : i > from /\ t[i] \in Whitespace})
        to == IF stop = 0 THEN Len(t) ELSE stop - 1
    IN  IF from = 0 THEN t
        ELSE SubSeq(t, 1, from - 1)
             \o stripTracking(SubSeq(t, from, to))
             \o ReplaceUrls(SubSeq(t, to + 1, Len(t)))

normalizeText(text) ==
    ReplaceUrls(LowerText(Trim(CollapseWhitespace(text))))

\* SHA-256 is taken to be collision free on the texts of the model: the
\* digest of a normalized text is represented by that text.
hashText(text) == <<"sha256:", normalizeText(text)>>

----------------------------------------------------------------------------
(* JavaScript values and JSON text *)

\* A text is a sequence of graphemes.  A JavaScript value is a record
\* tagged by its type.
Undefined == [type |-> "undefined"]
Null == [type |-> "null"]
Str(t) == [type |-> "string", value |-> t]
\* a string that holds JSON text (a sequence of tokens)
JsonStr(content) == [type |-> "string", json |-> content]
Num(n) == [type |-> "number", num |-> n]
Arr(items) == [type |-> "array", items |-> items]
Obj(fields) == [type |-> "object", fields |-> fields]

\* !v
Falsy(v) ==
    \/ v.type \in {"undefined", "null"}
    \/ v.type = "string" /\ "value" \in DOMAIN v /\ v.value = <<>>
    \/ v.type = "string" /\ "json" \in DOMAIN v /\ v.json = <<>>
    \/ v.type = "number" /\ v.num = 0

\* obj.key: undefined when the object has no such property
Get(obj, key) ==
    IF obj.type = "object" /\ key \in DOMAIN obj.fields
    THEN obj.fields[key]
    ELSE Undefined

\* A JSON text is a sequence of tokens: "{" and "}", a member (a key with
\* its value), a literal, or a word that is not JSON.
Member(key, value) == [key |-> key, value |-> value]
Literal(value) == [literal |-> value]
Prose == [word |-> "prose"]
OpenBrace == [punct |-> "{"]
CloseBrace == [punct |-> "}"]

IsMember(tok) == DOMAIN tok = {"key", "value"}
IsLiteral(tok) == DOMAIN tok = {"literal"}

\* JSON.stringify of an object with the given members, in order
Stringify(members) == <<OpenBrace>> \o members \o <<CloseBrace>>

\* the members of an object text as properties; a repeated key keeps its
\* last value
MembersToFields(members) ==
    [key \in {members[i].key : i \in 1..Len(members)} |->
        members[CHOOSE i \in 1..Len(members) :
                  /\ members[i].key = key
                  /\ \A j \in 1..Len(members) : members[j].key = key => j <= i].value]

\* JSON.parse: the whole text must be one JSON value; anything else throws
JSONParse(content) ==
    IF Len(content) = 1 /\ IsLiteral(content[1])
    THEN [ok |-> TRUE, value |-> content[1].literal]
    ELSE IF /\ Len(content) >= 2
            /\ content[1] = OpenBrace
            /\ content[Len(content)] = CloseBrace
            /\ \A i \in 2..(Len(content) - 1) : IsMember(content[i])
    THEN [ok |-> TRUE,
          value |-> Obj(MembersToFields(SubSeq(content, 2, Len(content) - 1)))]
    ELSE [ok |-> FALSE, value |-> Undefined]

----------------------------------------------------------------------------
(* Content generator: generatePost *)

MAX_GRAPHEMES == 300
DEFAULT_MODEL == "gpt-5-mini"

\* an ImageAsset, as far as the generator reads it
Image(id, defaultAlt) == [id |-> id, defaultAlt |-> defaultAlt]

\* Array.from(segmenter.segment(text)).length
countGraphemes(text) == Len(text)

validateAltOverrides(count, overrides) ==
    IF Falsy(overrides) THEN [ok |-> TRUE, message |-> "none"]
    ELSE IF overrides.type # "array"
    THEN [ok |-> FALSE, message |-> "alt_overrides must be an array"]
    ELSE IF Len(overrides.items) # count
    THEN [ok |-> FALSE, message |-> "alt_overrides must have count entries"]
    ELSE IF \E i \in 1..Len(overrides.items) :
               \/ overrides.items[i].type # "string"
               \/ Trim(overrides.items[i].value) = <<>>
    THEN [ok |-> FALSE, message |-> "alt_overrides entries must be non-empty strings"]
    ELSE [ok |-> TRUE, message |-> "none"]

NoOutput == [text |-> <<>>, alt_overrides |-> Undefined]

\* a validation that forgets the grapheme limit
validateOutputAnyLength(obj, imageCount) ==
    IF Falsy(obj) \/ obj.type \notin {"object", "array"}
    THEN [ok |-> FALSE, message |-> "JSON missing or not an object", output |-> NoOutput]
    ELSE IF Get(obj, "text").type # "string"
    THEN [ok |-> FALSE, message |-> "text missing", output |-> NoOutput]
    ELSE IF ~ validateAltOverrides(imageCount, Get(obj, "alt_overrides")).ok
    THEN [ok |-> FALSE,
          message |-> validateAltOverrides(imageCount, Get(obj, "alt_overrides")).message,
          output |-> NoOutput]
    ELSE [ok |-> TRUE, message |-> "none",
          output |-> [text |-> Get(obj, "text").value,
                      alt_overrides |-> Get(obj, "alt_overrides")]]

validateOutput(obj, imageCount) ==
    IF Falsy(obj) \/ obj.type \notin {"object", "array"}
    THEN [ok |-> FALSE, message |-> "JSON missing or not an object", output |-> NoOutput]
    ELSE IF Get(obj, "text").type # "string"
    THEN [ok |-> FALSE, message |-> "text missing", output |-> NoOutput]
    ELSE IF ~ validateAltOverrides(imageCount, Get(obj, "alt_overrides")).ok
    THEN [ok |-> FALSE,
          message |-> validateAltOverrides(imageCount, Get(obj, "alt_overrides")).message,
          output |-> NoOutput]
    ELSE IF countGraphemes(Get(obj, "text").value) > MAX_GRAPHEMES
    THEN [ok |-> FALSE, message |-> "text too long", output |-> NoOutput]
    ELSE [ok |-> TRUE, message |-> "none",
          output |-> [text |-> Get(obj, "text").value,
                      alt_overrides |-> Get(obj, "alt_overrides")]]

\* JSON.parse under try / catch: null when the text is not JSON
safeParse(content) ==
    IF JSONParse(content).ok THEN JSONParse(content).value ELSE Null

trimToMaxGraphemes(text, max) ==
    IF Len(text) <= max THEN text ELSE SubSeq(text, 1, max)

QuickNote == <<"Q", "u", "i", "c", "k", " ", "n", "o", "t", "e">>
QuickNoteFromTheDocs ==
    QuickNote \o <<" ", "f", "r", "o", "m", " ", "t", "h", "e", " ",
                   "d", "o", "c", "s", ".">>

\* a fallback that ignores the image's alt text
fallbackTextWithoutHint(input) ==
    [text |-> trimToMaxGraphemes(QuickNoteFromTheDocs, MAX_GRAPHEMES),
     alt_overrides |-> Undefined,
     model |-> "fallback",
     source |-> "fallback"]

fallbackText(input) ==
    LET imageHint == IF Len(input.images) > 0 THEN input.images[1].defaultAlt
                     ELSE <<>>
        base == IF imageHint # <<>>
                THEN QuickNote \o <<":", " ">> \o imageHint
                ELSE QuickNoteFromTheDocs
    IN  [text |-> trimToMaxGraphemes(base, MAX_GRAPHEMES),
         alt_overrides |-> Undefined,
         model |-> "fallback",
         source |-> "fallback"]

\* The answer of the generation API to one request: the fetch is rejected,
\* or an HTTP response arrives with a status and a body.
NetworkError == [kind |-> "networkError"]
HttpResponse(ok, body) == [kind |-> "http", ok |-> ok, body |-> body]

\* callNova: the data of the response, or an error thrown
callNova(response) ==
    IF response.kind = "networkError"
    THEN [threw |-> TRUE, data |-> Undefined]
    ELSE IF ~ response.ok
    THEN [threw |-> TRUE, data |-> Undefined]
    ELSE IF ~ JSONParse(response.body).ok
    THEN [threw |-> TRUE, data |-> Undefined]
    ELSE IF \/ Falsy(JSONParse(response.body).value)
            \/ Get(JSONParse(response.body).value, "text").type # "string"
    THEN [threw |-> TRUE, data |-> Undefined]
    ELSE [threw |-> FALSE, data |-> JSONParse(response.body).value]

\* the result of validateOutput as a GenerationResult of the model
Generated(output) ==
    [text |-> output.text,
     alt_overrides |-> output.alt_overrides,
     model |-> DEFAULT_MODEL,
     source |-> "nova"]

\* generatePost without its try / catch: an error of callNova propagates
generatePostUncaught(input, apiKey, firstResponse, repairResponse) ==
    LET first == callNova(firstResponse)
        initial == safeParse(Get(first.data, "text").json)
        validated == validateOutput(initial, Len(input.images))
        repair == callNova(repairResponse)
        repaired == safeParse(Get(repair.data, "text").json)
        repairedValid == validateOutput(repaired, Len(input.images))
        raised == [fallbackText(input) EXCEPT !.source = "raised"]
    IN  IF ~ apiKey
        THEN [result |-> fallbackText(input), calls |-> 0]
        ELSE IF first.threw
        THEN [result |-> raised, calls |-> 1]
        ELSE IF validated.ok
        THEN [result |-> Generated(validated.output), calls |-> 1]
        ELSE IF repair.threw
        THEN [result |-> raised, calls |-> 2]
        ELSE IF repairedValid.ok
        THEN [result |-> Generated(repairedValid.output), calls |-> 2]
        ELSE [result |-> fallbackText(input), calls |-> 2]

\* generatePost, given the answers the API gives to the first and to the
\* repair request: the result and the number of requests made
generatePost(input, apiKey, firstResponse, repairResponse) ==
    LET first == callNova(firstResponse)
        initial == safeParse(Get(first.data, "text").json)
        validated == validateOutput(initial, Len(input.images))
        repair == callNova(repairResponse)
        repaired == safeParse(Get(repair.data, "text").json)
        repairedValid == validateOutput(repaired, Len(input.images))
    IN  IF ~ apiKey
        THEN [result |-> fallbackText(input), calls |-> 0]
        ELSE IF first.threw
        THEN [result |-> fallbackText(input), calls |-> 1]
        ELSE IF validated.ok
        THEN [result |-> Generated(validated.output), calls |-> 1]
        ELSE IF repair.threw
        THEN [result |-> fallbackText(input), calls |-> 2]
        ELSE IF repairedValid.ok
        THEN [result |-> Generated(repairedValid.output), calls |-> 2]
        ELSE [result |-> fallbackText(input), calls |-> 2]

----------------------------------------------------------------------------
(* Safety filter: checkSafety *)

blockedPhrases == {<<"b", "a", "d">>}

IncludesSub(t, phrase) ==
    \E i \in 1..(Len(t) - Len(phrase) + 1) :
        SubSeq(t, i, i + Len(phrase) - 1) = phrase

\* a check that compares without lowering the text
checkSafetyCaseSensitive(text) ==
    [safe |-> ~ \E phrase \in blockedPhrases : IncludesSub(text, phrase)]

checkSafety(text) ==
    LET lowerText == LowerText(text)
    IN  [safe |-> ~ \E phrase \in blockedPhrases : IncludesSub(lowerText, phrase)]

----------------------------------------------------------------------------
(* Queue selector *)

QueueItem(id, active) == [id |-> id, active |-> active]

\* queue.filter((item) => item.active)
ActiveItems(q) == SelectSeq(q, LAMBDA item : item.active)

\* a recycling scan that looks the posted id up among all items
selectNextFirstPostedAnyItem(q, postedIds) ==
    LET ids == {q[k].id : k \in 1..Len(q)}
        p == FirstIndex({i \in 1..Len(postedIds) : postedIds[i] \in ids})
    IN  IF p # 0
        THEN <<[item |-> q[FirstIndex({k \in 1..Len(q) : q[k].id = postedIds[p]})],
               isRecycled |-> TRUE]>>
        ELSE <<[item |-> ActiveItems(q)[1], isRecycled |-> TRUE]>>

\* The result is <<>> for null, else <<[item, isRecycled]>>.
selectNextFirstPosted(q, postedIds) ==
    LET activeItems == ActiveItems(q)
        activeIds == {activeItems[k].id : k \in 1..Len(activeItems)}
        p == FirstIndex({i \in 1..Len(postedIds) : postedIds[i] \in activeIds})
    IN  IF p # 0
        THEN <<[item |-> activeItems[FirstIndex({k \in 1..Len(activeItems) :
                                        activeItems[k].id = postedIds[p]})],
               isRecycled |-> TRUE]>>
        ELSE <<[item |-> activeItems[1], isRecycled |-> TRUE]>>

\* a selection that forgets the active flag
selectNextIgnoringActive(q, postedIds) ==
    LET fresh == FirstIndex({i \in 1..Len(q) : ~ Includes(postedIds, q[i].id)})
    IN  IF Len(q) = 0 THEN <<>>
        ELSE IF fresh # 0
             THEN <<[item |-> q[fresh], isRecycled |-> FALSE]>>
             ELSE <<[item |-> q[1], isRecycled |-> TRUE]>>

selectNext(q, postedIds) ==
    LET activeItems == ActiveItems(q)
        fresh == FirstIndex({i \in 1..Len(activeItems) :
                               ~ Includes(postedIds, activeItems[i].id)})
    IN  IF Len(activeItems) = 0 THEN <<>>
        ELSE IF fresh # 0
             THEN <<[item |-> activeItems[fresh], isRecycled |-> FALSE]>>
             ELSE selectNextFirstPosted(q, postedIds)

----------------------------------------------------------------------------
(* State store *)

EmptyState ==
    [posted_ids |-> <<>>,
     recent_text_hashes |-> <<>>,
     recent_image_ids |-> <<>>,
     posted_today_utc |-> NullDate,
     posted_today_count |-> 0,
     last_posted_at |-> NullTime]

\* now.toISOString().slice(0, 10): the UTC calendar date, as a day number
UTCDate(now) == now \div MinutesPerDay

\* a load that rewrites the document with the empty state on every call
loadStateClobbering(file) ==
    [file |-> <<EmptyState>>,
     state |-> IF file = <<>> THEN EmptyState ELSE file[1],
     calls |-> {"loadState", "loadState.saveState"}]

\* a document cut short by a write that did not finish: no JSON text
Truncated(state) == [truncated |-> state]

\* JSON.parse(raw) succeeds
ParsesAsJson(document) == "truncated" \notin DOMAIN document

\* the file after the load, the state returned and the calls made; the
\* catch covers a missing file and a document that JSON.parse rejects
loadState(file) ==
    IF file = <<>> \/ ~ ParsesAsJson(file[1])
    THEN [file |-> <<EmptyState>>, state |-> EmptyState,
          calls |-> {"loadState", "loadState.saveState"}]
    ELSE [file |-> file, state |-> file[1], calls |-> {"loadState"}]

saveState(state) == <<state>>

\* a date roll that resets the counter without comparing the dates
ensureTodayAlwaysResetting(state, now) ==
    [state EXCEPT !.posted_today_utc = UTCDate(now), !.posted_today_count = 0]

\* a date roll that resets only when the stored date is earlier than today
ensureTodayOnlyForward(state, now) ==
    IF state.posted_today_utc < UTCDate(now)
    THEN [state EXCEPT !.posted_today_utc = UTCDate(now),
                       !.posted_today_count = 0]
    ELSE state

ensureToday(state, now) ==
    IF state.posted_today_utc # UTCDate(now)
    THEN [state EXCEPT !.posted_today_utc = UTCDate(now),
                       !.posted_today_count = 0]
    ELSE state

recordSuccess(state, sched, payload) ==
    LET updated ==
            [state EXCEPT
                !.posted_ids = Append(@, payload.id),
                !.recent_text_hashes = Append(@, payload.textHash),
                !.recent_image_ids = @ \o payload.imageIds,
                !.posted_today_count = @ + 1,
                !.last_posted_at = payload.when]
        trimmedHashes ==
            IF Len(updated.recent_text_hashes) > sched.max_recent_text_hashes
            THEN SliceLast(updated.recent_text_hashes, sched.max_recent_text_hashes)
            ELSE updated.recent_text_hashes
        trimmedImages ==
            IF Len(updated.recent_image_ids) > sched.max_recent_image_ids
            THEN SliceLast(updated.recent_image_ids, sched.max_recent_image_ids)
            ELSE updated.recent_image_ids
    IN  [updated EXCEPT !.recent_text_hashes = trimmedHashes,
                        !.recent_image_ids = trimmedImages]

----------------------------------------------------------------------------
(* Orchestrator helpers *)

HHMM(h, m) == <<h, m>>

\* a window test that forgets the windows that wrap midnight
isQuietHoursWithoutWrap(range, now) ==
    LET start == range[1][1] * 60 + range[1][2]
        end == range[2][1] * 60 + range[2][2]
        minutes == now % MinutesPerDay
    IN  minutes >= start /\ minutes < end

isQuietHours(range, now) ==
    LET start == range[1][1] * 60 + range[1][2]
        end == range[2][1] * 60 + range[2][2]
        minutes == now % MinutesPerDay
    IN  IF start < end
        THEN minutes >= start /\ minutes < end
        ELSE minutes >= start \/ minutes < end

\* Math.floor(Math.random() * random_jitter_minutes * 60 * 1000), with
\* Math.random() = tenths / 10
JitterMs(tenths, jitterMinutes) == (tenths * jitterMinutes * 60 * 1000) \div 10

\* a payload keyed by the content hash instead of the queue item id
PayloadKeyedByHash(r) == [text |-> r.text, images |-> r.images, rkey |-> r.textHash]

\* the payload handed to postWithImages
Payload(r) == [text |-> r.text, images |-> r.images, rkey |-> r.next]

----------------------------------------------------------------------------
(* Inputs of a run *)

\* the answer of the generation API with the payload { "text": text }
TextAnswer(text) ==
    HttpResponse(TRUE, Stringify(<<Member("text",
        JsonStr(Stringify(<<Member("text", Str(text))>>)))>>))

\* a text of n graphemes
LongText(n) == [i \in 1..n |-> "x"]

\* the answer of the generation API whose text is not JSON
ProseAnswer == HttpResponse(TRUE, Stringify(<<Member("text", JsonStr(<<Prose>>))>>))

\* What a run meets at the generator: whether NOVA_API_KEY is set, the
\* answers to the first and to the repair request and the default alt
\* text of the first selected image in the manifest.
ApiAnswer(apiKey, first, repair, alt) ==
    [apiKey |-> apiKey, first |-> first, repair |-> repair, alt |-> alt]

ApiAnswers ==
    {ApiAnswer(TRUE, TextAnswer(<<"H", "i">>), NetworkError, <<"y", "o">>),
     ApiAnswer(TRUE, ProseAnswer, TextAnswer(<<" ", "h", "i">>), <<"y", "o">>),
     ApiAnswer(TRUE, TextAnswer(<<"B", "a", "d">>), NetworkError, <<"y", "o">>),
     ApiAnswer(FALSE, NetworkError, NetworkError, <<"y", "o">>),
     ApiAnswer(TRUE, NetworkError, NetworkError, <<"B", "a", "d">>),
     ApiAnswer(TRUE, TextAnswer(LongText(MAX_GRAPHEMES + 1)),
               TextAnswer(<<"H", "i">>), <<"y", "o">>)}

\* the selected images as the generator sees them
GenerationInput(imgs, alt) ==
    [images |-> [i \in 1..Len(imgs) |->
                    Image(imgs[i], IF i = 1 THEN alt ELSE <<"a", "l", "t">>)]]

ImageSelections == {<<>>, <<"img2", "img1">>}

\* generatePost({ voice, item: next, images }) for every selection of
\* images and every answer
Generations ==
    [imgs \in ImageSelections |-> [a \in ApiAnswers |->
        generatePost(GenerationInput(imgs, a.alt), a.apiKey, a.first, a.repair).result]]

GenTexts == {Generations[imgs][a].text : imgs \in ImageSelections, a \in ApiAnswers}

RandomTenths == {0, 9}

Queues ==
    {<<QueueItem("a", FALSE), QueueItem("b", TRUE), QueueItem("c", TRUE)>>,
     <<QueueItem("a", FALSE)>>}

Schedule(perDay, quiet, jitter, maxImages, maxHashes) ==
    [posts_per_day |-> perDay,
     quiet_hours_utc |-> quiet,
     random_jitter_minutes |-> jitter,
     max_recent_image_ids |-> maxImages,
     max_recent_text_hashes |-> maxHashes]

NightQuiet == <<HHMM(22, 0), HHMM(6, 0)>>
MorningQuiet == <<HHMM(9, 0), HHMM(10, 0)>>

OverlapSchedules ==
    {Schedule(2, MorningQuiet, 0, 2, 0)}

Schedules ==
    OverlapSchedules \cup
    {Schedule(2, NightQuiet, 15, 2, 1),
     Schedule(3, MorningQuiet, 0, 1, 1)}

----------------------------------------------------------------------------
(* The orchestrator: main() *)

IdleRun ==
    [pc |-> "idle", now |-> 0, dryRun |-> FALSE,
     loaded |-> EmptyState, state |-> EmptyState,
     next |-> NoItem, isRecycled |-> FALSE,
     images |-> <<>>, text |-> <<>>, source |-> "none", textHash |-> <<>>,
     result |-> "none", calls |-> {}, notified |-> "none",
     exitCode |-> 0, exit |-> "none"]

\* TG_BOT_TOKEN and TG_CHAT_ID set or not, TG_NOTIFY_LEVEL, and what the
\* Telegram API does with a sendMessage request
TelegramEnv(configured, level, answer) ==
    [configured |-> configured, level |-> level, answer |-> answer]

Unconfigured == TelegramEnv(FALSE, "all", "ok")

TelegramEnvs ==
    {Unconfigured}
    \cup {TelegramEnv(TRUE, "all", answer) : answer \in {"ok", "nonOk", "unreachable"}}
    \cup {TelegramEnv(TRUE, level, "unreachable") : level \in {"errors", "none"}}

\* a notification whose fetch is not inside try/catch
sendTelegramNotificationUncaught(env, payload) ==
    IF ~ env.configured \/ env.level = "none"
       \/ (env.level = "errors" /\ payload.success)
    THEN [raised |-> FALSE, delivery |-> "skipped"]
    ELSE IF env.answer = "unreachable"
    THEN [raised |-> TRUE, delivery |-> "raised"]
    ELSE [raised |-> FALSE,
          delivery |-> IF env.answer = "ok" THEN "delivered" ELSE "failed"]

\* sendTelegramNotification(payload): skipped without token or chat id, at
\* level 'none', and for a success at level 'errors'; a non-OK answer and a
\* failed fetch are logged
sendTelegramNotification(env, payload) ==
    IF ~ env.configured THEN [raised |-> FALSE, delivery |-> "skipped"]
    ELSE IF env.level = "none" THEN [raised |-> FALSE, delivery |-> "skipped"]
    ELSE IF env.level = "errors" /\ payload.success
    THEN [raised |-> FALSE, delivery |-> "skipped"]
    ELSE IF env.answer = "ok" THEN [raised |-> FALSE, delivery |-> "delivered"]
    ELSE [raised |-> FALSE, delivery |-> "failed"]

\* the notification environment of the process
Telegram == fn.telegram

\* await sendTelegramNotification({ success, ... }) in main()
Notify(r, success) ==
    LET sent == sendTelegramNotification(Telegram,
                    [success |-> success, dryRun |-> r.dryRun])
    IN  [raised |-> sent.raised,
         run |-> [r EXCEPT !.calls = @ \cup {IF success THEN "notifySuccess"
                                                       ELSE "notifyFailure"},
                           !.notified = sent.delivery]]

\* return from main()
MainReturn(r, reason) == [r EXCEPT !.pc = "done", !.exit = reason]

\* main().catch: failure notification, process.exitCode = 1 (an error
\* raised inside the handler is an unhandled rejection: exit code 1 as well)
MainCatch(r) ==
    [Notify(r, FALSE).run EXCEPT !.pc = "done", !.exit = "error", !.exitCode = 1]

\* a notification inside main(), then return: an error raised by the
\* notification reaches main().catch
NotifyAndReturn(r, success, reason) ==
    LET n == Notify(r, success)
    IN  IF n.raised THEN MainCatch(n.run) ELSE MainReturn(n.run, reason)

Event(ev, r) ==
    [ev |-> ev, id |-> r.next, hash |-> r.textHash, day |-> UTCDate(r.now)]

\* the number of runs that reached recordSuccess so far
RecordedRuns ==
    Cardinality({i \in 1..Len(history) : history[i].ev = "recordSuccess"})

\* a duplicate check that never fires
IsDuplicateNever(state, textHash) == FALSE

\* the duplicate check of main()
IsDuplicate(state, textHash) == Includes(state.recent_text_hashes, textHash)

\* main() from its first line to envAuth(): load the schedule and the state,
\* roll the date, the gates, the selections, verifyImageSizes, the
\* generation, the safety and the duplicate check.  Each input is drawn
\* where main() reads it.
BeginRun(p) ==
    /\ run[p].pc = "idle"
    /\ RecordedRuns < MaxPosts
    /\ clock - LastTick(clock) <= MaxLateMinutes
    /\ LET now == clock
           ld == loadState(stateFile)
           state == ensureToday(ld.state, now)
           selection == selectNext(queue, state.posted_ids)
           Becomes(r) == run' = [run EXCEPT ![p] = r]
       IN  /\ stateFile' = ld.file
           /\ \E dry \in BOOLEAN :
               LET r0 == [IdleRun EXCEPT !.now = now, !.dryRun = dry,
                                         !.loaded = ld.state, !.state = state,
                                         !.calls = ld.calls]
                   r1 == [r0 EXCEPT !.next = selection[1].item.id,
                                    !.isRecycled = selection[1].isRecycled]
               IN  IF isQuietHours(schedule.quiet_hours_utc, now)
                   THEN Becomes(MainReturn(r0, "quiet"))
                   ELSE IF state.posted_today_count >= schedule.posts_per_day
                   THEN Becomes(MainReturn(r0, "quota"))
                   ELSE IF selection = <<>>
                   THEN Becomes(MainReturn(r0, "noitem"))
                   ELSE \E imgs \in ImageSelections :
                     IF Len(imgs) = 0
                     THEN Becomes(MainReturn(r1, "noimage"))
                     ELSE \E sizesOk \in BOOLEAN :
                       IF ~ sizesOk
                       THEN Becomes(MainCatch([r1 EXCEPT !.images = imgs]))
                       ELSE \E answer \in ApiAnswers :
                         LET generation == Generations[imgs][answer]
                             r2 == [r1 EXCEPT !.images = imgs,
                                              !.text = generation.text,
                                              !.source = generation.source]
                             textHash == hashText(generation.text)
                             r3 == [r2 EXCEPT !.textHash = textHash]
                         IN  IF ~ checkSafety(generation.text).safe
                             THEN Becomes(NotifyAndReturn(r2, FALSE, "unsafe"))
                             ELSE IF IsDuplicate(state, textHash)
                             THEN Becomes(MainReturn(r3, "duplicate"))
                             ELSE \E creds \in BOOLEAN :
                               IF ~ creds
                               THEN Becomes(MainCatch(r3))
                               ELSE Becomes([r3 EXCEPT !.pc = "jitter"])
    /\ UNCHANGED <<network, clock, schedule, queue, history, published, fn>>

\* a run started while no other run is in progress
Begin(p) ==
    /\ \A q \in Procs : run[q].pc = "idle"
    /\ p = FirstProc
    /\ BeginRun(p)

\* a run started whether or not another run is in progress
BeginAnytime(p) ==
    /\ RecordedRuns < MaxOverlapPosts
    /\ BeginRun(p)

\* a dry-run test that never fires
DryRunExitNever(r) == FALSE

\* if (dryRun) { notify; return }
DryRunExit(r) == r.dryRun

\* the jitter sleep, then the dry-run exit
JitterSleep(p) ==
    /\ run[p].pc = "jitter"
    /\ \E tenths \in RandomTenths :
        LET jitterMs == IF schedule.random_jitter_minutes > 0
                        THEN JitterMs(tenths, schedule.random_jitter_minutes)
                        ELSE 0
        IN  clock' = clock + (jitterMs \div (60 * 1000))
    /\ run' = [run EXCEPT ![p] =
         IF DryRunExit(run[p])
         THEN NotifyAndReturn(run[p], TRUE, "dryrun")
         ELSE [run[p] EXCEPT !.pc = "publish"]]
    /\ UNCHANGED <<stateFile, network, schedule, queue, history, published, fn>>

RkeyExists(rkey) == \E i \in 1..Len(network) : network[i].rkey = rkey

\* main() after postWithImages returned: recordSuccess on the run's state
Recorded(r) ==
    [r EXCEPT !.pc = "save",
              !.state = recordSuccess(r.state, schedule,
                            [id |-> r.next, textHash |-> r.textHash,
                             imageIds |-> r.images, when |-> r.now])]

\* postWithImages rethrowing the 'already exists' error
OnAlreadyExistsRethrown(r) == MainCatch([r EXCEPT !.result = "alreadyExists"])

\* postWithImages when createRecord raised an error whose message includes
\* 'already exists': it returns alreadyExists = true and main() goes on
OnAlreadyExists(r) == Recorded([r EXCEPT !.result = "alreadyExists"])

\* login, postWithImages (uploadBlob per image, createRecord), recordSuccess
Publish(p) ==
    /\ run[p].pc = "publish"
    /\ \E outcome \in {"ok", "loginError", "uploadError", "createError"} :
        LET r == run[p]
            payload == Payload(r)
            rLogin == [r EXCEPT !.calls = @ \cup {"login"}]
            rPost == [rLogin EXCEPT !.calls = @ \cup {"postWithImages"}]
            ok == outcome = "ok"
        IN  /\ published' = [published EXCEPT ![r.textHash] =
                                            IF @ < 2 THEN @ + 1 ELSE 2]
            /\ CASE outcome = "loginError" ->
                      /\ run' = [run EXCEPT ![p] = MainCatch(rLogin)]
                      /\ UNCHANGED network
                 [] outcome = "uploadError" ->
                      /\ run' = [run EXCEPT ![p] = MainCatch(rPost)]
                      /\ UNCHANGED network
                 [] outcome = "createError" ->
                      /\ run' = [run EXCEPT ![p] =
                                   MainCatch([rPost EXCEPT !.result = "error"])]
                      /\ UNCHANGED network
                 [] outcome = "ok" ->
                      IF RkeyExists(payload.rkey)
                      THEN /\ run' = [run EXCEPT ![p] = OnAlreadyExists(rPost)]
                           /\ UNCHANGED network
                      ELSE /\ run' = [run EXCEPT ![p] =
                                        Recorded([rPost EXCEPT !.result = "created"])]
                           /\ network' = Append(network,
                                [rkey |-> payload.rkey, text |-> payload.text,
                                 item |-> r.next, createdAt |-> clock])
            /\ history' = IF run'[p].pc = "save"
                          THEN Append(history, Event("recordSuccess", r))
                          ELSE history
    /\ UNCHANGED <<stateFile, clock, schedule, queue, fn>>

\* saveState and the success notification; a failed write raises
SaveState(p) ==
    /\ run[p].pc = "save"
    /\ \E written \in BOOLEAN :
        LET r == [run[p] EXCEPT !.calls = @ \cup {"saveState"}]
        IN  IF written
            THEN /\ stateFile' = saveState(r.state)
                 /\ run' = [run EXCEPT ![p] = NotifyAndReturn(r, TRUE, "posted")]
                 /\ history' = Append(history, Event("saveState", r))
            ELSE /\ run' = [run EXCEPT ![p] = MainCatch(r)]
                 /\ UNCHANGED <<stateFile, history>>
    /\ UNCHANGED <<network, clock, schedule, queue, published, fn>>

\* the process ends
Exit(p) ==
    /\ run[p].pc = "done"
    /\ run' = [run EXCEPT ![p] = IdleRun]
    /\ UNCHANGED <<stateFile, network, clock, schedule, queue, history, published, fn>>

\* time passes until the next scheduler tick
Tick ==
    /\ \A q \in Procs : run[q].pc = "idle"
    /\ NextTick(clock) <= MaxClock
    /\ clock' = NextTick(clock)
    /\ UNCHANGED <<stateFile, network, schedule, queue, run, history, published, fn>>

\* no function under study; notifications are not configured
NoFn == [telegram |-> Unconfigured]

Init ==
    /\ stateFile = <<>>
    /\ network = <<>>
    /\ clock = StartClock
    /\ schedule \in Schedules
    /\ queue \in Queues
    /\ run = [p \in Procs |-> IdleRun]
    /\ history = <<>>
    /\ published = [h \in {hashText(t) : t \in GenTexts} |-> 0]
    /\ fn = NoFn

Next ==
    \/ \E p \in Procs : Begin(p)
    \/ \E p \in Procs : JitterSleep(p)
    \/ \E p \in Procs : Publish(p)
    \/ \E p \in Procs : SaveState(p)
    \/ \E p \in Procs : Exit(p)
    \/ Tick

Spec == Init /\ [][Next]_vars

NextOverlap ==
    \/ \E p \in Procs : BeginAnytime(p)
    \/ \E p \in Procs : JitterSleep(p)
    \/ \E p \in Procs : Publish(p)
    \/ \E p \in Procs : SaveState(p)
    \/ \E p \in Procs : Exit(p)
    \/ Tick

\* the runs of two scheduler ticks may overlap when the workflow does not
\* serialize them
InitOverlap ==
    /\ Init
    /\ schedule \in OverlapSchedules

SpecOverlap == InitOverlap /\ [][NextOverlap]_vars

MaxNotifiedPosts == 2

\* a run of a process whose notifications may be configured
BeginNotified(p) ==
    /\ RecordedRuns < MaxNotifiedPosts
    /\ Begin(p)

NextNotify ==
    \/ \E p \in Procs : BeginNotified(p)
    \/ \E p \in Procs : JitterSleep(p)
    \/ \E p \in Procs : Publish(p)
    \/ \E p \in Procs : SaveState(p)
    \/ \E p \in Procs : Exit(p)
    \/ Tick

\* every notification environment, with one schedule and one queue
InitNotify ==
    /\ stateFile = <<>>
    /\ network = <<>>
    /\ clock = StartClock
    /\ schedule \in OverlapSchedules
    /\ queue = <<QueueItem("a", FALSE), QueueItem("b", TRUE), QueueItem("c", TRUE)>>
    /\ run = [p \in Procs |-> IdleRun]
    /\ history = <<>>
    /\ published = [h \in {hashText(t) : t \in GenTexts} |-> 0]
    /\ fn \in {[telegram |-> env] : env \in TelegramEnvs}

SpecNotify == InitNotify /\ [][NextNotify]_vars

----------------------------------------------------------------------------
(* selectNext on its own: every queue and every posted-id list within the
   bounds *)

QueueIds == {"a", "b", "c"}
PostedIdValues == QueueIds \cup {"x"}

SeqsUpTo(S, n) == UNION {[1..k -> S] : k \in 0..n}

QueueInputs == SeqsUpTo([id : QueueIds, active : BOOLEAN], MaxQueueLen)
PostedInputs == SeqsUpTo(PostedIdValues, MaxPostedLen)

InitSelect ==
    /\ stateFile = <<>>
    /\ network = <<>>
    /\ clock = StartClock
    /\ schedule \in OverlapSchedules
    /\ queue = <<>>
    /\ run = [p \in Procs |-> IdleRun]
    /\ history = <<>>
    /\ published = [h \in {hashText(t) : t \in GenTexts} |-> 0]
    /\ \E q \in QueueInputs, ids \in PostedInputs :
        fn = [queue |-> q, postedIds |-> ids, applied |-> FALSE, result |-> <<>>]

ApplySelectNext ==
    /\ ~ fn.applied
    /\ fn' = [fn EXCEPT !.applied = TRUE,
                        !.result = selectNext(fn.queue, fn.postedIds)]
    /\ UNCHANGED <<stateFile, network, clock, schedule, queue, run,
                   history, published>>

NextSelect == ApplySelectNext

SpecSelect == InitSelect /\ [][NextSelect]_vars

----------------------------------------------------------------------------
(* generatePost on its own: every answer of the API to the first and to the
   repair request *)

\* the other variables of a specification that applies one function
NoProgram ==
    /\ stateFile = <<>>
    /\ network = <<>>
    /\ clock = StartClock
    /\ schedule \in OverlapSchedules
    /\ queue = <<>>
    /\ run = [p \in Procs |-> IdleRun]
    /\ history = <<>>
    /\ published = [h \in {hashText(t) : t \in GenTexts} |-> 0]

ImageInputs ==
    {SubSeq(<<Image("img1", <<"y", "o">>), Image("img2", <<>>),
              Image("img3", <<"H", "i">>)>>, 1, n) : n \in 0..MaxGenImages}
    \cup {<<Image("img2", <<>>)>>, <<Image("img4", LongText(MAX_GRAPHEMES))>>}

\* alt_overrides values for a post with n images
AltOverrides(n) ==
    {Arr([i \in 1..n |-> Str(<<"a">>)]),
     Arr([i \in 1..(n + 1) |-> Str(<<"a">>)]),
     Arr([i \in 1..n |-> Str(<<" ">>)]),
     Str(<<"a">>),
     Null}

\* what the model may write into the text field of its answer
Contents(text, n) ==
    {Stringify(<<Member("text", Str(text))>>),
     Stringify(<<Member("text", Str(LongText(MAX_GRAPHEMES)))>>),
     Stringify(<<Member("text", Str(LongText(MAX_GRAPHEMES + 1)))>>),
     Stringify(<<Member("text", Num(5))>>),
     Stringify(<<>>),
     <<Literal(Null)>>,
     <<Literal(Num(5))>>,
     <<Prose>>,
     <<Prose>> \o Stringify(<<Member("text", Str(text))>>) \o <<Prose>>}
    \cup {Stringify(<<Member("text", Str(text)), Member("alt_overrides", alts)>>) :
            alts \in AltOverrides(n)}

Responses(text, n) ==
    {NetworkError,
     HttpResponse(FALSE, Stringify(<<Member("error", Str(<<"e">>))>>)),
     HttpResponse(TRUE, <<Prose>>),
     HttpResponse(TRUE, <<Literal(Null)>>),
     HttpResponse(TRUE, Stringify(<<Member("model", Str(<<"m">>))>>)),
     HttpResponse(TRUE, Stringify(<<Member("text", Num(5))>>))}
    \cup {HttpResponse(TRUE, Stringify(<<Member("text", JsonStr(content))>>)) :
            content \in Contents(text, n)}

FirstText == <<"H", "i">>
RepairText == <<"y", "o">>

InitGenerate ==
    /\ NoProgram
    /\ \E images \in ImageInputs, apiKey \in BOOLEAN :
       \E first \in Responses(FirstText, Len(images)),
          repair \in Responses(RepairText, Len(images)) :
        fn = [input |-> [images |-> images], apiKey |-> apiKey,
              first |-> first, repair |-> repair,
              applied |-> FALSE, result |-> fallbackText([images |-> <<>>]),
              calls |-> 0]

ApplyGeneratePost ==
    /\ ~ fn.applied
    /\ LET g == generatePost(fn.input, fn.apiKey, fn.first, fn.repair)
       IN  fn' = [fn EXCEPT !.applied = TRUE, !.result = g.result,
                            !.calls = g.calls]
    /\ UNCHANGED <<stateFile, network, clock, schedule, queue, run,
                   history, published>>

NextGenerate == ApplyGeneratePost

SpecGenerate == InitGenerate /\ [][NextGenerate]_vars

----------------------------------------------------------------------------
(* The state store on its own: recordSuccess and ensureToday on every state
   within the bounds *)

HashValues == {hashText(<<"H", "i">>), hashText(<<"y", "o">>)}
ImageIdValues == {"img1", "img2"}
NewHash == hashText(<<"n", "e", "w">>)
NewImageIds == {<<>>, <<"img3">>, <<"img3", "img4">>, <<"img3", "img4", "img5">>}

StoredDates == {NullDate, 0, 1, 2}
NowValues == {StartClock, StartClock + MinutesPerDay}

RecordInputs ==
    [op : {"recordSuccess"},
     state : {[EmptyState EXCEPT !.recent_text_hashes = hashes,
                                 !.recent_image_ids = images] :
                hashes \in SeqsUpTo(HashValues, MaxRecentLen),
                images \in SeqsUpTo(ImageIdValues, MaxRecentLen)},
     sched : {Schedule(2, MorningQuiet, 0, maxImages, maxHashes) :
                maxImages \in 0..MaxCap, maxHashes \in 0..MaxCap},
     imageIds : NewImageIds,
     now : {StartClock}]

EnsureInputs ==
    [op : {"ensureToday"},
     state : {[EmptyState EXCEPT !.posted_ids = ids,
                                 !.posted_today_utc = date,
                                 !.posted_today_count = count,
                                 !.last_posted_at = IF date = NullDate THEN NullTime
                                                    ELSE date * MinutesPerDay] :
                ids \in {<<>>, <<"b">>}, date \in StoredDates, count \in 0..MaxCap},
     sched : {Schedule(2, MorningQuiet, 0, 2, 0)},
     imageIds : {<<>>},
     now : NowValues]

InitState ==
    /\ NoProgram
    /\ \E input \in RecordInputs \cup EnsureInputs :
        fn = [op |-> input.op, state |-> input.state, sched |-> input.sched,
              imageIds |-> input.imageIds, now |-> input.now,
              applied |-> FALSE, result |-> EmptyState]

ApplyRecordSuccess ==
    /\ ~ fn.applied
    /\ fn.op = "recordSuccess"
    /\ fn' = [fn EXCEPT !.applied = TRUE,
                        !.result = recordSuccess(fn.state, fn.sched,
                                      [id |-> "b", textHash |-> NewHash,
                                       imageIds |-> fn.imageIds, when |-> fn.now])]
    /\ UNCHANGED <<stateFile, network, clock, schedule, queue, run,
                   history, published>>

ApplyEnsureToday ==
    /\ ~ fn.applied
    /\ fn.op = "ensureToday"
    /\ fn' = [fn EXCEPT !.applied = TRUE,
                        !.result = ensureToday(fn.state, fn.now)]
    /\ UNCHANGED <<stateFile, network, clock, schedule, queue, run,
                   history, published>>

NextState == ApplyRecordSuccess \/ ApplyEnsureToday

SpecState == InitState /\ [][NextState]_vars

----------------------------------------------------------------------------
(* validateAltOverrides on its own: every kind of overrides value *)

MaxAltCount == 2

\* what an entry of an alt_overrides array may be
AltEntries ==
    {Str(<<"a">>), Str(<<" ">>), Str(<<>>), Str(<<" ", "a">>), Num(5), Null}

OverridesInputs ==
    {Undefined, Null, Str(<<>>), Str(<<"a">>), Str(<<" ">>), Num(0), Num(5),
     Obj(<<>>)}
    \cup {Arr(items) : items \in SeqsUpTo(AltEntries, MaxAltCount + 1)}

InitValidate ==
    /\ NoProgram
    /\ \E count \in 0..MaxAltCount, overrides \in OverridesInputs :
        fn = [count |-> count, overrides |-> overrides, applied |-> FALSE,
              result |-> [ok |-> TRUE, message |-> "none"]]

ApplyValidateAltOverrides ==
    /\ ~ fn.applied
    /\ fn' = [fn EXCEPT !.applied = TRUE,
                        !.result = validateAltOverrides(fn.count, fn.overrides)]
    /\ UNCHANGED <<stateFile, network, clock, schedule, queue, run,
                   history, published>>

NextValidate == ApplyValidateAltOverrides

SpecValidate == InitValidate /\ [][NextValidate]_vars

----------------------------------------------------------------------------
(* Image selector: selectImages, on every catalog and option set of the
   bounds *)

MaxCatalog == 5
MaxPerPost == 5

MAX_BYTES == 1000000
\* the explicit id list is cut to this many entries
MAX_REQUESTED == 4

ImageAsset(id, tags, bytes) == [id |-> id, tags |-> tags, bytes |-> bytes]

\* the images of at most MAX_BYTES bytes, in catalog order
EligibleImages(manifest) ==
    SelectSeq(manifest, LAMBDA img : img.bytes <= MAX_BYTES)

\* the number of the image's tags that are among the requested tags,
\* compared without regard to case
tagOverlapCount(imageTags, requestedTags) ==
    Cardinality({i \in 1..Len(imageTags) :
                    \E j \in 1..Len(requestedTags) :
                        LowerText(imageTags[i]) = LowerText(requestedTags[j])})

clamp(value, lo, hi) ==
    IF value < lo THEN lo ELSE IF value > hi THEN hi ELSE value

\* the score in quarters: overlap - (0.5 if recently used) + jitter, with a
\* jitter of 0 or a quarter
Score(img, opts, jitter) ==
    4 * tagOverlapCount(img.tags, opts.tags)
    - (IF Includes(opts.recentImageIds, img.id) THEN 2 ELSE 0)
    + jitter

\* the explicit mode: the requested ids that resolve to an eligible image,
\* in the requested order, at most MAX_REQUESTED of them
selectRequested(eligible, requestedIds) ==
    LET found == SelectSeq(requestedIds,
                           LAMBDA id : \E j \in 1..Len(eligible) : eligible[j].id = id)
        resolved == [i \in 1..Len(found) |->
                        eligible[FirstIndex({j \in 1..Len(eligible) :
                                                eligible[j].id = found[i]})]]
    IN  SubSeq(resolved, 1, IF Len(resolved) < MAX_REQUESTED THEN Len(resolved)
                            ELSE MAX_REQUESTED)

\* the automatic mode: the eligible images by descending score (equal scores
\* keep their catalog order), the first clamp(default, 1, max) of them
selectScored(eligible, opts, jitter) ==
    LET score(i) == Score(eligible[i], opts, jitter[i])
        before(i) == Cardinality({j \in 1..Len(eligible) :
                                    \/ score(j) > score(i)
                                    \/ score(j) = score(i) /\ j < i})
        sorted == [k \in 1..Len(eligible) |->
                      eligible[CHOOSE i \in 1..Len(eligible) : before(i) = k - 1]]
        count == clamp(opts.defaultImagesPerPost, 1, opts.maxImagesPerPost)
    IN  SubSeq(sorted, 1, IF Len(sorted) < count THEN Len(sorted) ELSE count)

\* selectImages(manifest, opts); jitter[i] is the random part of the score
\* of the i-th eligible image
selectImages(manifest, opts, jitter) ==
    LET eligible == EligibleImages(manifest)
    IN  IF opts.requestedIds.type = "array"
        THEN selectRequested(eligible, opts.requestedIds.items)
        ELSE selectScored(eligible, opts, jitter)

ProductTag == <<"H", "i">>
DemoTag == <<"y", "o">>

\* a catalog of n images; the images of the set big are over the size cap
Catalog(n, big) ==
    [i \in 1..n |->
        ImageAsset(i, IF i % 2 = 1 THEN <<ProductTag, DemoTag>> ELSE <<DemoTag>>,
                   IF i \in big THEN MAX_BYTES + 1 ELSE MAX_BYTES)]

Catalogs ==
    {Catalog(n, big) : n \in 0..MaxCatalog, big \in {{}, {1}, {2, 3}}}

\* no list, a short list with an id that is not in the catalog, and a list
\* of every id of the largest catalog
RequestedIdLists ==
    {Undefined, Arr(<<2, 0, 1>>), Arr([i \in 1..MaxCatalog |-> MaxCatalog + 1 - i])}

SelectOptions ==
    [requestedIds : RequestedIdLists,
     tags : {<<>>, <<LowerText(ProductTag)>>},
     defaultImagesPerPost : 0..MaxPerPost,
     maxImagesPerPost : 1..MaxPerPost,
     recentImageIds : {<<>>, <<1>>}]

InitImages ==
    /\ NoProgram
    /\ \E manifest \in Catalogs, opts \in SelectOptions :
        fn = [manifest |-> manifest, opts |-> opts, applied |-> FALSE,
              result |-> <<>>]

ApplySelectImages ==
    /\ ~ fn.applied
    /\ \E jitter \in [1..Len(EligibleImages(fn.manifest)) -> 0..1] :
        fn' = [fn EXCEPT !.applied = TRUE,
                         !.result = selectImages(fn.manifest, fn.opts, jitter)]
    /\ UNCHANGED <<stateFile, network, clock, schedule, queue, run,
                   history, published>>

NextImages == ApplySelectImages

SpecImages == InitImages /\ [][NextImages]_vars

----------------------------------------------------------------------------
(* hashText on its own: texts with and without a URL, and their variants in
   letter case, in whitespace and in tracking parameters *)

MaxParams == 2

\* String.prototype.toUpperCase on one element
ToUpperCase(c) ==
    CASE c = "h" -> "H"
      [] c = "i" -> "I"
      [] c = "b" -> "B"
      [] c = "https://e.com" -> "HTTPS://E.COM"
      [] c = "/p" -> "/P"
      [] c = "/%3c" -> "/%3C"
      [] c = "id=1" -> "ID=1"
      [] c = "flag" -> "FLAG"
      [] c = "utm_source=x" -> "UTM_SOURCE=X"
      [] c = "gclid=x" -> "GCLID=X"
      [] OTHER -> c

UpperText(t) == [i \in 1..Len(t) |-> ToUpperCase(t[i])]

NarrowGap == <<" ">>
WideGap == <<" ", "\n", " ">>

\* the parts of a text: words before and after, and between them nothing
\* or a URL with a path and a query
TextParts(lead, url, path, hasQuery, params, tail) ==
    [lead |-> lead, url |-> url, path |-> path, hasQuery |-> hasQuery,
     params |-> params, tail |-> tail]

\* the text of the parts, its words set apart by the gap
Render(parts, gap) ==
    (IF parts.lead THEN <<"H", "i">> \o gap ELSE <<>>)
    \o (IF parts.url
        THEN <<"https://e.com">> \o parts.path
             \o (IF parts.hasQuery THEN <<"?">> \o JoinParams(parts.params)
                 ELSE <<>>)
        ELSE <<"y", "o">>)
    \o (IF parts.tail THEN gap \o <<"b">> ELSE <<>>)

PlainParams == {"id=1", "flag"}
TrackingParamValues == {"utm_source=x", "gclid=x"}

HashInputs ==
    {TextParts(lead, FALSE, <<>>, FALSE, <<>>, tail) : lead, tail \in BOOLEAN}
    \cup {TextParts(lead, TRUE, path, FALSE, <<>>, tail) :
            lead, tail \in BOOLEAN, path \in {<<>>, <<"/p">>, <<"/<">>}}
    \cup {TextParts(lead, TRUE, path, TRUE, params, tail) :
            lead, tail \in BOOLEAN, path \in {<<>>, <<"/p">>, <<"/<">>},
            params \in SeqsUpTo(PlainParams \cup TrackingParamValues, MaxParams)}

\* the texts that differ from the text of the parts in one respect only
Variants(parts) ==
    {[kind |-> "case", text |-> UpperText(Render(parts, NarrowGap))],
     [kind |-> "whitespace", text |-> Render(parts, WideGap)]}
    \cup (IF parts.url
          THEN {[kind |-> "tracking",
                 text |-> Render([parts EXCEPT !.hasQuery = TRUE, !.params = more],
                                 NarrowGap)] :
                  more \in {<<t>> \o parts.params : t \in TrackingParamValues}
                           \cup {parts.params \o <<t>> : t \in TrackingParamValues}}
          ELSE {})

NoHashes == [hash |-> <<>>, normalizedHash |-> <<>>, variantHash |-> <<>>]

InitHash ==
    /\ NoProgram
    /\ \E parts \in HashInputs :
       \E variant \in Variants(parts) :
        fn = [text |-> Render(parts, NarrowGap), parts |-> parts,
              kind |-> variant.kind, variant |-> variant.text,
              applied |-> FALSE, result |-> NoHashes]

ApplyHashText ==
    /\ ~ fn.applied
    /\ fn' = [fn EXCEPT !.applied = TRUE,
                        !.result = [hash |-> hashText(fn.text),
                                    normalizedHash |-> hashText(normalizeText(fn.text)),
                                    variantHash |-> hashText(fn.variant)]]
    /\ UNCHANGED <<stateFile, network, clock, schedule, queue, run,
                   history, published>>

NextHash == ApplyHashText

SpecHash == InitHash /\ [][NextHash]_vars

----------------------------------------------------------------------------
(* loadState on its own: no document, every stored document of the bounds,
   and documents that are no JSON text *)

StoredStates ==
    {[EmptyState EXCEPT !.posted_ids = ids,
                        !.posted_today_utc = date,
                        !.posted_today_count = count,
                        !.last_posted_at = IF date = NullDate THEN NullTime
                                           ELSE date * MinutesPerDay] :
        ids \in SeqsUpTo({"b", "c"}, MaxPostedLen), date \in StoredDates,
        count \in 0..MaxCap}

StateFiles ==
    {<<>>}
    \cup {<<state>> : state \in StoredStates}
    \cup {<<Truncated(state)>> : state \in StoredStates}

InitLoad ==
    /\ NoProgram
    /\ \E file \in StateFiles :
        fn = [file |-> file, applied |-> FALSE,
              result |-> [file |-> file, state |-> EmptyState, calls |-> {}]]

ApplyLoadState ==
    /\ ~ fn.applied
    /\ fn' = [fn EXCEPT !.applied = TRUE, !.result = loadState(fn.file)]
    /\ UNCHANGED <<stateFile, network, clock, schedule, queue, run,
                   history, published>>

NextLoad == ApplyLoadState

SpecLoad == InitLoad /\ [][NextLoad]_vars

----------------------------------------------------------------------------
(* Properties *)

\* the last n elements of s (all of s when it is shorter)
LastN(s, n) == SubSeq(s, IF n < Len(s) THEN Len(s) - n + 1 ELSE 1, Len(s))

EventsOf(ev) == SelectSeq(history, LAMBDA e : e.ev = ev)

\* the text hashes of the runs that persisted their state, oldest first
SavedHashes == [i \in 1..Len(EventsOf("saveState")) |-> EventsOf("saveState")[i].hash]

HasText(r) == r.text # <<>>

C2_NoHashPublishedTwice == \A h \in DOMAIN published : published[h] <= 1

ReachedPublish(r) == r.pc \in {"publish", "save"} \/ "login" \in r.calls

\* C2 as amended: a run that reaches the publish step carries a text whose
\* hash is not among the hashes persisted by the last max_recent_text_hashes
\* runs that saved the state.
C2_NoRecentHashRepublished ==
    \A p \in Procs :
        LET r == run[p]
        IN  (ReachedPublish(r) /\ r.exit # "posted")
            => ~ Includes(LastN(SavedHashes, schedule.max_recent_text_hashes),
                          r.textHash)

C2_Witness ==
    \E p \in Procs :
        /\ run[p].pc = "publish"
        /\ schedule.max_recent_text_hashes > 0
        /\ Includes(SavedHashes, run[p].textHash)

\* C3: for every queue item id at most one post record is created on the
\* network for that item (the record's item is the id the run used as
\* rkey), also when runs overlap or stop before saveState.
C3_AtMostOneRecordPerItem ==
    \A id \in QueueIds :
        Cardinality({i \in 1..Len(network) : network[i].item = id}) <= 1

C3_Witness ==
    \E p, q \in Procs :
        /\ p # q
        /\ run[p].next = run[q].next
        /\ run[p].result = "created"
        /\ run[q].result = "alreadyExists"

\* the daily count a run starts from, after the date roll
CountAtStart(r) ==
    IF r.loaded.posted_today_utc = UTCDate(r.now)
    THEN r.loaded.posted_today_count
    ELSE 0

\* the number of the run's image ids that fit in recent_image_ids
ImagesKept(r) ==
    IF schedule.max_recent_image_ids = 0
       \/ schedule.max_recent_image_ids >= Len(r.images)
    THEN Len(r.images)
    ELSE schedule.max_recent_image_ids

\* the persisted document records the run r: id appended, hash and image
\* ids recorded, daily count incremented
PersistedAsSuccess(r) ==
    /\ stateFile # <<>>
    /\ stateFile[1].posted_ids = Append(r.loaded.posted_ids, r.next)
    /\ stateFile[1].recent_text_hashes # <<>>
    /\ stateFile[1].recent_text_hashes[Len(stateFile[1].recent_text_hashes)]
         = r.textHash
    /\ LastN(stateFile[1].recent_image_ids, ImagesKept(r))
         = LastN(r.images, ImagesKept(r))
    /\ stateFile[1].posted_today_count = CountAtStart(r) + 1
    /\ stateFile[1].posted_today_utc = UTCDate(r.now)
    /\ stateFile[1].last_posted_at = r.now

\* C4: an 'already exists' answer is not raised, and the run records and
\* saves exactly as after a created post; any other createRecord error
\* propagates and the document is not written.
C4_AlreadyExistsIsSuccess ==
    \A p \in Procs :
        LET r == run[p]
        IN  /\ r.result = "alreadyExists"
               => \/ r.pc = "save"
                  \/ r.exit = "posted"
                  \/ r.exit = "error" /\ "saveState" \in r.calls
            /\ (r.result \in {"created", "alreadyExists"} /\ r.exit = "posted")
               => PersistedAsSuccess(r)
            /\ r.result = "error"
               => /\ r.exitCode = 1
                  /\ "saveState" \notin r.calls
                  /\ stateFile = <<r.loaded>>

C4_Witness ==
    \E p \in Procs : run[p].result = "alreadyExists" /\ run[p].exit = "posted"

Days == 0..(UTCDate(MaxClock) + 1)

\* the number of runs started on the UTC date d that reached the call ev
RunsOn(ev, d) ==
    Cardinality({i \in 1..Len(history) : history[i].ev = ev /\ history[i].day = d})

PersistedCountWithinQuota ==
    stateFile # <<>> => stateFile[1].posted_today_count <= schedule.posts_per_day

\* C6 as stated: for every UTC date, at most posts_per_day runs that start
\* on it reach recordSuccess, and the persisted posted_today_count never
\* exceeds posts_per_day.
C6_RecordedRunsWithinQuota ==
    /\ \A d \in Days : RunsOn("recordSuccess", d) <= schedule.posts_per_day
    /\ PersistedCountWithinQuota

\* C6 as amended: for every UTC date, at most posts_per_day runs that
\* start on it persist their recorded state with saveState, and the
\* persisted posted_today_count never exceeds posts_per_day.
C6_SavedRunsWithinQuota ==
    /\ \A d \in Days : RunsOn("saveState", d) <= schedule.posts_per_day
    /\ PersistedCountWithinQuota

C6_Witness ==
    \E p \in Procs :
        /\ run[p].exit = "quota"
        /\ RunsOn("saveState", UTCDate(run[p].now)) = schedule.posts_per_day

\* the quiet-hours window of the schedule, on minutes since midnight
InQuietWindow(minutes) ==
    LET start == schedule.quiet_hours_utc[1][1] * 60 + schedule.quiet_hours_utc[1][2]
        end == schedule.quiet_hours_utc[2][1] * 60 + schedule.quiet_hours_utc[2][2]
    IN  IF start < end
        THEN start <= minutes /\ minutes < end
        ELSE minutes >= start \/ minutes < end

\* C7: every post record is created at an instant outside the quiet-hours
\* window.
C7_NoRecordCreatedInQuietHours ==
    \A i \in 1..Len(network) :
        ~ InQuietWindow(network[i].createdAt % MinutesPerDay)

\* the indices of the active items of q whose id is not in ids
FreshIndices(q, ids) ==
    {i \in 1..Len(q) : q[i].active /\ \A k \in 1..Len(ids) : ids[k] # q[i].id}

\* C8: when some active item is not posted, selectNext returns the first
\* such item of the queue with isRecycled = FALSE; it never returns an
\* inactive item.
C8_FirstFreshActiveItem ==
    fn.applied =>
        /\ FreshIndices(fn.queue, fn.postedIds) # {}
           => \E i \in FreshIndices(fn.queue, fn.postedIds) :
                /\ \A j \in FreshIndices(fn.queue, fn.postedIds) : i <= j
                /\ fn.result = <<[item |-> fn.queue[i], isRecycled |-> FALSE]>>
        /\ fn.result # <<>> => fn.result[1].item.active

C8_Witness ==
    /\ fn.applied
    /\ Len(fn.queue) >= 2
    /\ ~ fn.queue[1].active
    /\ \A k \in 1..Len(fn.postedIds) : fn.postedIds[k] # fn.queue[1].id
    /\ FreshIndices(fn.queue, fn.postedIds) # {}
    /\ fn.postedIds # <<>>

ActiveIdsOf(q) == {q[i].id : i \in {j \in 1..Len(q) : q[j].active}}

\* the position of the most recent post of id in ids (0: never posted)
LastPostOf(id, ids) ==
    IF \E i \in 1..Len(ids) : ids[i] = id
    THEN CHOOSE i \in 1..Len(ids) :
            ids[i] = id /\ \A j \in 1..Len(ids) : ids[j] = id => j <= i
    ELSE 0

\* C9: a recycled selection is the least recently posted active item: no
\* other active item has an older most recent post.
C9_RecycledIsLeastRecentlyPosted ==
    \A p \in Procs :
        run[p].isRecycled
        => \A id \in ActiveIdsOf(queue) :
              LastPostOf(run[p].next, run[p].loaded.posted_ids)
                <= LastPostOf(id, run[p].loaded.posted_ids)

\* C10: with two or more active items every active item keeps being
\* selected: after every point of the sequence of state-updating runs that
\* is followed by at least as many such runs as there are active items,
\* each active item is selected by one of the later runs.
C10_EveryActiveItemSelectedAgain ==
    (stateFile # <<>> /\ Cardinality(ActiveIdsOf(queue)) >= 2)
    => LET ids == stateFile[1].posted_ids
       IN  \A n \in 0..Len(ids) :
             Len(ids) - n >= Cardinality(ActiveIdsOf(queue))
             => \A id \in ActiveIdsOf(queue) :
                   \E m \in (n + 1)..Len(ids) : ids[m] = id

\* C11: a non-dry run that selected a recycled item and ended with the
\* state updated has created a post record for that item carrying the
\* run's own text.
C11_RecycledRunCreatesPost ==
    \A p \in Procs :
        LET r == run[p]
        IN  (r.isRecycled /\ ~ r.dryRun /\ r.exit = "posted")
            => \E i \in 1..Len(network) :
                  /\ network[i].item = r.next
                  /\ network[i].text = r.text
                  /\ network[i].createdAt >= r.now

\* C12: selectNext returns null exactly when the queue has no active
\* item, and an item it returns is an active member of the queue, whatever
\* the posted-id list holds.
C12_NullIffNoActiveItem ==
    fn.applied =>
        /\ fn.result = <<>> <=> \A i \in 1..Len(fn.queue) : ~ fn.queue[i].active
        /\ fn.result # <<>>
           => \E i \in 1..Len(fn.queue) :
                 fn.queue[i] = fn.result[1].item /\ fn.queue[i].active

C12_Witness ==
    /\ fn.applied
    /\ fn.result # <<>>
    /\ fn.result[1].isRecycled
    /\ Len(fn.postedIds) = 3
    /\ \E i \in 1..Len(fn.queue) :
          ~ fn.queue[i].active /\ fn.postedIds[1] = fn.queue[i].id
    /\ fn.postedIds[2] = fn.postedIds[3]

\* C13: after recordSuccess each recency list is no longer than its cap
\* and holds exactly the newest entries of the extended list, in order,
\* for every cap from 0 up.
C13_RecencyListsWithinCaps ==
    (fn.applied /\ fn.op = "recordSuccess") =>
        /\ Len(fn.result.recent_text_hashes) <= fn.sched.max_recent_text_hashes
        /\ Len(fn.result.recent_image_ids) <= fn.sched.max_recent_image_ids
        /\ fn.result.recent_text_hashes
             = LastN(Append(fn.state.recent_text_hashes, NewHash),
                     fn.sched.max_recent_text_hashes)
        /\ fn.result.recent_image_ids
             = LastN(fn.state.recent_image_ids \o fn.imageIds,
                     fn.sched.max_recent_image_ids)

\* C14: ensureToday returns the state with posted_today_utc set to the
\* UTC date of now; the count is 0 when the stored date differs from that
\* date (a null date and a later date included) and the stored count
\* otherwise; the other fields are the stored ones.
C14_EnsureTodayRollsDate ==
    (fn.applied /\ fn.op = "ensureToday") =>
        /\ fn.result.posted_today_utc = fn.now \div MinutesPerDay
        /\ fn.result.posted_today_count
             = IF fn.state.posted_today_utc # fn.now \div MinutesPerDay
               THEN 0
               ELSE fn.state.posted_today_count
        /\ fn.result.posted_ids = fn.state.posted_ids
        /\ fn.result.recent_text_hashes = fn.state.recent_text_hashes
        /\ fn.result.recent_image_ids = fn.state.recent_image_ids
        /\ fn.result.last_posted_at = fn.state.last_posted_at

C14_Witness ==
    /\ fn.applied
    /\ fn.op = "ensureToday"
    /\ fn.state.posted_today_utc > fn.now \div MinutesPerDay
    /\ fn.state.posted_today_count > 0
    /\ fn.result.posted_today_count = 0

\* C15: a run with DRY_RUN=true never calls login or postWithImages
\* (uploadBlob, createRecord), and the persisted document keeps the
\* posted_ids, recent_text_hashes, recent_image_ids, posted_today_count
\* and last_posted_at it had before the run.
C15_DryRunLeavesNoTrace ==
    \A p \in Procs :
        LET r == run[p]
        IN  (r.pc # "idle" /\ r.dryRun)
            => /\ r.calls \cap {"login", "postWithImages", "saveState"} = {}
               /\ r.result = "none"
               /\ stateFile # <<>>
               /\ stateFile[1].posted_ids = r.loaded.posted_ids
               /\ stateFile[1].recent_text_hashes = r.loaded.recent_text_hashes
               /\ stateFile[1].recent_image_ids = r.loaded.recent_image_ids
               /\ stateFile[1].posted_today_count = r.loaded.posted_today_count
               /\ stateFile[1].last_posted_at = r.loaded.last_posted_at

C15_Witness ==
    \E p \in Procs :
        /\ run[p].exit = "dryrun"
        /\ run[p].loaded.posted_ids # <<>>
        /\ network # <<>>

\* an answer that delivers a text field holding a string
Answered(response) ==
    /\ response.kind = "http"
    /\ response.ok
    /\ Len(response.body) = 3
    /\ response.body[1] = OpenBrace
    /\ IsMember(response.body[2])
    /\ response.body[2].key = "text"
    /\ response.body[2].value.type = "string"

PayloadOf(response) == response.body[2].value.json

\* the payloads that satisfy the output contract for n images
ValidPayloads(text, n) ==
    {Stringify(<<Member("text", Str(t))>>) : t \in {text, LongText(MAX_GRAPHEMES)}}
    \cup {Stringify(<<Member("text", Str(text)), Member("alt_overrides", alts)>>) :
            alts \in {Arr([i \in 1..n |-> Str(<<"a">>)]), Null}}

FirstValidates ==
    Answered(fn.first) /\ PayloadOf(fn.first) \in ValidPayloads(FirstText, Len(fn.input.images))

RepairValidates ==
    Answered(fn.repair) /\ PayloadOf(fn.repair) \in ValidPayloads(RepairText, Len(fn.input.images))

\* the text member of a payload that is an object text
TextOf(payload) == payload[2].value.value

\* the local template: the note on the first image's alt text, or the
\* note without one, and of it the first 300 graphemes
TemplateOf(input) ==
    LET note ==
          IF Len(input.images) > 0 /\ input.images[1].defaultAlt # <<>>
          THEN <<"Q", "u", "i", "c", "k", " ", "n", "o", "t", "e", ":", " ">>
               \o input.images[1].defaultAlt
          ELSE <<"Q", "u", "i", "c", "k", " ", "n", "o", "t", "e", " ", "f", "r", "o",
                 "m", " ", "t", "h", "e", " ", "d", "o", "c", "s", ".">>
    IN  [i \in 1..(IF Len(note) < 300 THEN Len(note) ELSE 300) |-> note[i]]

\* C16: generatePost never raises: for every API-key presence and every
\* answer to the first and to the repair request it returns a result
\* whose source is the generated tag ('nova') or 'fallback'.
C16_AlwaysReturnsTaggedResult ==
    fn.applied => fn.result.source \in {"nova", "fallback"}

C16_Witness ==
    /\ fn.applied
    /\ fn.apiKey
    /\ Answered(fn.first) /\ ~ FirstValidates
    /\ fn.repair = NetworkError
    /\ fn.result.source = "fallback"

WrappedPayload == <<Prose>> \o Stringify(<<Member("text", Str(FirstText))>>) \o <<Prose>>

\* C19: when the first answer's text is a valid payload embedded in prose,
\* generatePost returns that payload with the generated tag after a single
\* request.
C19_EmbeddedPayloadExtracted ==
    (/\ fn.applied
     /\ fn.apiKey
     /\ Answered(fn.first)
     /\ PayloadOf(fn.first) = WrappedPayload)
    => /\ fn.result.source = "nova"
       /\ fn.result.text = FirstText
       /\ fn.calls = 1

\* the text contains a blocked phrase, in any letter case
ContainsBlockedPhrase(text) ==
    \E phrase \in {<<"b", "a", "d">>} :
        \E i \in 1..(Len(text) - Len(phrase) + 1) :
            \A k \in 1..Len(phrase) :
                text[i + k - 1] \in {phrase[k], IF phrase[k] = "b" THEN "B" ELSE phrase[k]}

\* C20: no post record carries a text with a blocked phrase; a run whose
\* text (from the model or from the fallback) has one ends with a failure
\* notification, without login, postWithImages or saveState, with the
\* document as loaded and with exit code 0.
C20_UnsafeTextNeverPublished ==
    /\ \A i \in 1..Len(network) : ~ ContainsBlockedPhrase(network[i].text)
    /\ \A p \in Procs :
        LET r == run[p]
        IN  (r.pc # "idle" /\ HasText(r) /\ ContainsBlockedPhrase(r.text))
            => /\ r.pc = "done"
               /\ "notifyFailure" \in r.calls
               /\ r.calls \cap {"login", "postWithImages", "saveState"} = {}
               /\ r.exitCode = 0
               /\ stateFile = <<r.loaded>>

C20_Witness ==
    \E p \in Procs :
        /\ run[p].exit = "unsafe"
        /\ run[p].source = "fallback"
        /\ run[p].loaded.posted_ids # <<>>

\* an overrides value that is present: neither undefined nor null
Present(v) == v.type \notin {"undefined", "null"}

\* an entry that is not a non-empty string: empty, whitespace-only, or no
\* string at all
BlankEntry(v) == v.type # "string" \/ Trim(v.value) = <<>>

\* C21: validateAltOverrides(n, overrides) fails if and only if overrides is
\* present and is not an array, or has a length different from n, or
\* contains an entry that is empty or whitespace-only; it succeeds for
\* undefined and null.  For every overrides value, the empty array and the
\* present values that are no arrays (such as the empty string) included.
C21_FailsIffPresentAndMalformed ==
    fn.applied =>
        (~ fn.result.ok <=>
            /\ Present(fn.overrides)
            /\ \/ fn.overrides.type # "array"
               \/ Len(fn.overrides.items) # fn.count
               \/ \E i \in 1..Len(fn.overrides.items) :
                     BlankEntry(fn.overrides.items[i]))

\* the same statement for the values that JavaScript does not treat as
\* false: an object, a non-empty string, a non-zero number, any array
C21_FailsIffTruthyAndMalformed ==
    fn.applied /\ ~ Falsy(fn.overrides) =>
        (~ fn.result.ok <=>
            \/ fn.overrides.type # "array"
            \/ Len(fn.overrides.items) # fn.count
            \/ \E i \in 1..Len(fn.overrides.items) :
                  BlankEntry(fn.overrides.items[i]))

\* C22: for every catalog and every option set (explicit id list or
\* automatic mode, any default and any maximum per post), selectImages
\* returns between 0 and maxImagesPerPost images and never more than 4.
C22_SizeWithinMaxPerPostAndFour ==
    fn.applied =>
        /\ Len(fn.result) <= fn.opts.maxImagesPerPost
        /\ Len(fn.result) <= 4

\* what the two modes keep: at most 4 images with an id list, at most
\* clamp(default, 1, max) without one, and only eligible images of the catalog
C22_SizeWithinModeLimit ==
    fn.applied =>
        /\ \A i \in 1..Len(fn.result) :
              /\ fn.result[i].bytes <= MAX_BYTES
              /\ Includes(fn.manifest, fn.result[i])
        /\ IF fn.opts.requestedIds.type = "array"
           THEN Len(fn.result) <= 4
           ELSE Len(fn.result) <= clamp(fn.opts.defaultImagesPerPost, 1,
                                        fn.opts.maxImagesPerPost)

\* more images than maxImagesPerPost from an id list
C22_ExplicitOverMax ==
    /\ fn.applied
    /\ fn.opts.requestedIds.type = "array"
    /\ Len(fn.result) > fn.opts.maxImagesPerPost

\* more than 4 images in the automatic mode
C22_AutomaticOverFour ==
    /\ fn.applied
    /\ fn.opts.requestedIds.type # "array"
    /\ Len(fn.result) > 4

\* C23: sendTelegramNotification never raises and never changes the run's
\* outcome: with the webhook unconfigured, unreachable, answering non-OK or
\* delivering, a run that notified a success has published and persisted
\* its state (or is a dry run that did neither) with exit code 0, and a run
\* that notified a failure ended for its own reason (blocked phrase: exit
\* code 0; error: exit code 1) with the document as loaded.
C23_NotificationNeverChangesOutcome ==
    \A p \in Procs :
        LET r == run[p]
        IN  (r.pc = "done" /\ r.notified # "none")
            => /\ r.notified \in {"skipped", "delivered", "failed"}
               /\ ~ {"notifySuccess", "notifyFailure"} \subseteq r.calls
               /\ ("notifySuccess" \in r.calls /\ ~ r.dryRun)
                    => /\ r.exit = "posted"
                       /\ r.exitCode = 0
                       /\ r.result \in {"created", "alreadyExists"}
                       /\ stateFile = <<r.state>>
               /\ ("notifySuccess" \in r.calls /\ r.dryRun)
                    => /\ r.exit = "dryrun"
                       /\ r.exitCode = 0
                       /\ r.result = "none"
                       /\ stateFile = <<r.loaded>>
               /\ "notifyFailure" \in r.calls
                    => /\ stateFile = <<r.loaded>>
                       /\ \/ r.exit = "unsafe" /\ r.exitCode = 0
                          \/ r.exit = "error" /\ r.exitCode = 1

\* a run that published and persisted its state although the webhook was
\* unreachable
C23_Witness ==
    \E p \in Procs :
        /\ run[p].exit = "posted"
        /\ Telegram.configured
        /\ Telegram.answer = "unreachable"
        /\ run[p].notified = "failed"
        /\ run[p].state.posted_ids # <<>>
        /\ stateFile = <<run[p].state>>

\* a failing run whose failure notification got a non-OK answer
C23_WitnessNonOk ==
    \E p \in Procs :
        /\ run[p].exit = "error"
        /\ Telegram.answer = "nonOk"
        /\ run[p].notified = "failed"
        /\ run[p].exitCode = 1

\* C24: every text handed to postWithImages has at most 300 graphemes, on
\* every generation path (first answer accepted, repaired answer accepted,
\* fallback): the text of every run at or past the publish step and the
\* text of every post record.
C24_PublishedTextWithinLimit ==
    /\ \A p \in Procs :
        (run[p].pc \in {"publish", "save"} \/ "postWithImages" \in run[p].calls)
            => countGraphemes(Payload(run[p]).text) <= MAX_GRAPHEMES
    /\ \A i \in 1..Len(network) : countGraphemes(network[i].text) <= MAX_GRAPHEMES

\* a generated text and a fallback text were both handed to postWithImages
\* and are on post records
C24_Witness ==
    /\ \E p \in Procs :
        /\ "postWithImages" \in run[p].calls
        /\ run[p].source = "fallback"
        /\ run[p].result = "created"
    /\ \E i \in 1..Len(network) : network[i].text = <<"H", "i">>

\* the same limit at the generator: every result of generatePost, the
\* fallback built from a default alt text of 300 graphemes included
C24_GeneratedTextWithinLimit ==
    fn.applied => countGraphemes(fn.result.text) <= MAX_GRAPHEMES

\* a fallback text that was cut to the limit
C24_TrimmedFallback ==
    /\ fn.applied
    /\ fn.result.source = "fallback"
    /\ countGraphemes(fn.result.text) = MAX_GRAPHEMES

\* C29: hashText is invariant under normalization: for every text t,
\* hashText(normalizeText(t)) = hashText(t), and two texts that differ only
\* in letter case, in runs of whitespace or in the listed tracking
\* parameters of a URL have the same hash.
C29_HashInvariantUnderNormalization ==
    fn.applied =>
        /\ fn.result.normalizedHash = fn.result.hash
        /\ fn.result.variantHash = fn.result.hash

\* the part of C29 about letter case and whitespace, on every text
C29_CaseAndWhitespaceInvariant ==
    (fn.applied /\ fn.kind \in {"case", "whitespace"})
        => fn.result.variantHash = fn.result.hash

\* normalizeText is idempotent on the texts whose URL has no character
\* that the URL parser writes as a percent escape
C29_IdempotentWithoutEscapes ==
    (fn.applied /\ ~ Includes(fn.text, "/<"))
        => fn.result.normalizedHash = fn.result.hash

\* a tracking parameter changes nothing when every other parameter of the
\* URL is written as name=value and the URL does not end in a bare "?"
C29_TrackingInvariantWithValues ==
    (/\ fn.applied
     /\ fn.kind = "tracking"
     /\ ~ Includes(fn.text, "flag")
     /\ ~ (fn.parts.hasQuery /\ fn.parts.params = <<>>))
        => fn.result.variantHash = fn.result.hash

\* a URL whose normalized form normalizes to something else
C29_NotIdempotent ==
    /\ fn.applied
    /\ fn.result.normalizedHash # fn.result.hash

\* two texts that differ only in a tracking parameter, with two hashes
C29_TrackingChangesHash ==
    /\ fn.applied
    /\ fn.kind = "tracking"
    /\ fn.result.variantHash # fn.result.hash

\* the number of runs that persisted a recorded publish whose `when` falls
\* on the given UTC date
SavedOn(day) ==
    Cardinality({i \in 1..Len(history) :
                    history[i].ev = "saveState" /\ history[i].day = day})

\* C25: in every state reachable by a sequence of runs from the empty
\* document, posted_today_count equals the number of recorded successful
\* publishes whose `when` falls on the UTC date stored in posted_today_utc:
\* in the persisted document, and in the state a run holds after the date
\* roll (plus its own publish once it has reached recordSuccess).
C25_CountMatchesRecordedPublishes ==
    /\ stateFile # <<>> =>
          stateFile[1].posted_today_count = SavedOn(stateFile[1].posted_today_utc)
    /\ \A p \in Procs :
        LET r == run[p]
        IN  r.pc # "idle" =>
              /\ r.state.posted_today_utc = UTCDate(r.now)
              /\ r.state.posted_today_count =
                    IF r.pc = "save" \/ (r.pc = "done" /\ "saveState" \in r.calls
                                         /\ r.exit = "error")
                    THEN SavedOn(UTCDate(r.now)) + 1
                    ELSE SavedOn(UTCDate(r.now))

\* two publishes recorded on one date, and a later date roll
C25_Witness ==
    /\ stateFile # <<>>
    /\ stateFile[1].posted_today_count = 1
    /\ \E i \in 1..Len(history) :
          /\ history[i].ev = "saveState"
          /\ history[i].day < stateFile[1].posted_today_utc
    /\ \E d \in 0..1 : SavedOn(d) = 2

\* a publish that was recorded but not persisted is not counted
C25_WitnessUnsaved ==
    /\ stateFile # <<>>
    /\ stateFile[1].posted_today_count = 1
    /\ \E i \in 1..Len(history) :
          /\ history[i].ev = "recordSuccess"
          /\ history[i].day = stateFile[1].posted_today_utc
          /\ \E j \in 1..Len(history) :
                j # i /\ history[j].ev = "recordSuccess"
                      /\ history[j].day = history[i].day

\* C26: a generator failure never blocks the pipeline: a run that passed
\* the gates, has a queue item and images, and got the fallback text because
\* the generation API was unavailable goes on to the publish step, from
\* every prior state; it does not end at the safety or the duplicate check.
C26_FallbackRunReachesPublish ==
    \A p \in Procs :
        (run[p].pc # "idle" /\ run[p].source = "fallback")
            => run[p].exit \notin {"unsafe", "duplicate"}

\* a fallback run that ended at the duplicate check: an earlier run has
\* persisted the same fallback text
C26_FallbackBlockedAsDuplicate ==
    \E p \in Procs :
        /\ run[p].source = "fallback"
        /\ run[p].exit = "duplicate"
        /\ Includes(run[p].state.recent_text_hashes, hashText(run[p].text))
        /\ \E i \in 1..Len(network) : network[i].text = run[p].text

\* what holds: a fallback run whose text has no blocked phrase and is not
\* among the recent hashes goes on to envAuth, the jitter sleep and the
\* publish step
C26_FreshSafeFallbackGoesOn ==
    \A p \in Procs :
        LET r == run[p]
        IN  (/\ r.pc # "idle"
             /\ r.source = "fallback"
             /\ ~ ContainsBlockedPhrase(r.text)
             /\ ~ Includes(r.state.recent_text_hashes, hashText(r.text))
             /\ r.pc # "save" /\ "saveState" \notin r.calls)
            => \/ r.pc \in {"jitter", "publish"}
               \/ r.exit \in {"dryrun", "error"}

\* the run started inside the quiet-hours window of the schedule
StartedInQuietHours(r) ==
    LET from == schedule.quiet_hours_utc[1][1] * 60 + schedule.quiet_hours_utc[1][2]
        until == schedule.quiet_hours_utc[2][1] * 60 + schedule.quiet_hours_utc[2][2]
        minute == r.now % (24 * 60)
    IN  IF from < until THEN from <= minute /\ minute < until
        ELSE from <= minute \/ minute < until

\* the count the run met at the quota gate: that of the loaded document,
\* 0 when the document is of another UTC date
CountAtGate(r) ==
    IF r.loaded.posted_today_utc = r.now \div (24 * 60)
    THEN r.loaded.posted_today_count
    ELSE 0

\* C27: a run that starts inside the quiet-hours window, or with
\* posted_today_count >= posts_per_day after the date roll, selects no
\* queue item and no image, calls neither the generation API nor login or
\* postWithImages, sends no notification, updates no state and ends with
\* exit code 0; inside the window the run ends at the quiet-hours gate
\* whatever the count, also when DRY_RUN is set.
C27_GatedRunDoesNothing ==
    \A p \in Procs :
        LET r == run[p]
        IN  (r.pc # "idle"
             /\ (StartedInQuietHours(r) \/ CountAtGate(r) >= schedule.posts_per_day))
            => /\ r.pc = "done"
               /\ r.exit = IF StartedInQuietHours(r) THEN "quiet" ELSE "quota"
               /\ r.next = NoItem
               /\ r.images = <<>>
               /\ r.source = "none" /\ r.text = <<>>
               /\ r.calls \subseteq {"loadState", "loadState.saveState"}
               /\ r.notified = "none"
               /\ r.result = "none"
               /\ r.exitCode = 0
               /\ stateFile = <<r.loaded>>

\* a dry run inside the quiet-hours window with the quota met as well
C27_Witness ==
    \E p \in Procs :
        /\ run[p].pc = "done"
        /\ run[p].dryRun
        /\ StartedInQuietHours(run[p])
        /\ CountAtGate(run[p]) >= schedule.posts_per_day
        /\ run[p].exit = "quiet"

\* a run outside the window that ended at the quota gate
C27_WitnessQuota ==
    \E p \in Procs :
        /\ run[p].pc = "done"
        /\ ~ StartedInQuietHours(run[p])
        /\ run[p].exit = "quota"
        /\ run[p].loaded.posted_ids # <<>>

\* C28: loadState writes the document only when it is absent, and then
\* writes the all-empty state; when a document exists it returns the stored
\* contents and does not overwrite it, so the posted_ids of earlier runs
\* are never lost by loading.
C28_LoadWritesOnlyWhenAbsent ==
    fn.applied =>
        IF fn.file = <<>>
        THEN /\ fn.result.file = <<EmptyState>>
             /\ fn.result.state = EmptyState
        ELSE /\ fn.result.file = fn.file
             /\ "loadState.saveState" \notin fn.result.calls

\* the same for the documents that are JSON text: returned as stored and
\* left alone
C28_ParsedDocumentKept ==
    (fn.applied /\ fn.file # <<>> /\ "posted_ids" \in DOMAIN fn.file[1])
        => /\ fn.result.file = fn.file
           /\ fn.result.state = fn.file[1]
           /\ fn.result.calls = {"loadState"}

\* an existing document with posted ids, replaced by the empty document
C28_ExistingDocumentOverwritten ==
    /\ fn.applied
    /\ fn.file # <<>>
    /\ "truncated" \in DOMAIN fn.file[1]
    /\ fn.file[1].truncated.posted_ids # <<>>
    /\ fn.result.file = <<EmptyState>>
    /\ fn.result.state.posted_ids = <<>>

\* the ids of the runs that reached recordSuccess so far
RecordedIds ==
    {history[i].id : i \in {j \in 1..Len(history) : history[j].ev = "recordSuccess"}}

\* C30: a run that ends at the safety check or at the duplicate check
\* leaves the state as it was, so the next run with the same queue selects
\* the same item again; the queue does not advance past an item until a run
\* for that item has reached recordSuccess.
C30_BlockedItemStaysNext ==
    /\ \A p \in Procs :
        LET r == run[p]
            again == selectNext(queue, stateFile[1].posted_ids)
        IN  (r.pc = "done" /\ r.exit \in {"unsafe", "duplicate"})
            => /\ stateFile = <<r.loaded>>
               /\ again # <<>>
               /\ again[1].item.id = r.next
               /\ again[1].isRecycled = r.isRecycled
    /\ stateFile # <<>> => Range(stateFile[1].posted_ids) \subseteq RecordedIds
    /\ \A p \in Procs :
        (run[p].pc # "idle" /\ run[p].next # NoItem /\ ~ run[p].isRecycled)
            => \A i \in 1..Len(queue) :
                  (/\ queue[i].active
                   /\ i < FirstIndex({k \in 1..Len(queue) : queue[k].id = run[p].next}))
                    => queue[i].id \in RecordedIds

\* a run for the second active item, after the first was recorded, that
\* ended at the duplicate check
C30_Witness ==
    \E p \in Procs :
        /\ run[p].pc = "done"
        /\ run[p].exit = "duplicate"
        /\ run[p].next = "c"
        /\ run[p].loaded.posted_ids = <<"b">>
        /\ stateFile = <<run[p].loaded>>

\* a run that ended at the safety check with the first active item still
\* to post
C30_WitnessUnsafe ==
    \E p \in Procs :
        /\ run[p].pc = "done"
        /\ run[p].exit = "unsafe"
        /\ run[p].next = "b"
        /\ "b" \notin RecordedIds

====
